---- MODULE Spec2Model ----
(***************************************************************************)
(* The forecast pipeline of Forecast-Ready (motia-app/src/forecast):       *)
(*   ForecastAPI -> LoadHistoricalFacts -> GenerateForecast                *)
(*               -> PersistForecastResult,                                 *)
(* with the GeminiClient used by GenerateForecast and the Supabase tables  *)
(* forecast.daily_sales, forecast.inventory_snapshots and                  *)
(* forecast.forecast_results as the fact store and the result store.       *)
(*                                                                         *)
(* Conventions.  A calendar date 'YYYY-MM-DD' is the triple <<y, m, d>>.   *)
(* A JavaScript time value is an integer number of HOURS since             *)
(* 1970-01-01T00:00Z (every instant the code builds lies on a full hour).  *)
(* A JavaScript number that is not an integer is the exact rational        *)
(* <<num, den>> with den > 0; a value already rounded to 2 decimals is the *)
(* integer number of hundredths.  A confidence level is the integer number *)
(* of hundredths (0.95 is 95).  Square roots are the real ones: a value    *)
(* that involves one is rounded exactly.  Texts are strings.               *)
(***************************************************************************)
EXTENDS Integers, Sequences, FiniteSets, TLC

VARIABLES
    tz,             \* the time zone of the process running the handlers
    dailySales,     \* forecast.daily_sales: product id -> rows, ascending by date
    inventory,      \* forecast.inventory_snapshots: product id -> rows
    pc,             \* run -> stage of the pipeline run
    failedIn,       \* run -> stage whose handler threw ("none" if none did)
    ack,            \* run -> HTTP response body of the trigger (NoAck before)
    emitted,        \* run -> the events emitted for the run, in order
    forecastResult, \* run -> forecastResult object of the generate handler
    inserts,        \* run -> [period index -> state of that period's insert]
    attempts,       \* run -> [period index -> number of inserts issued]
    reported,       \* run -> what the persist handler reported
    store,          \* forecast.forecast_results: the set of rows
    storeErrors,    \* number of insert errors the result store has returned
    minted,         \* number of distinct request ids minted so far
    salesQuery,     \* run -> what the sales query of the load step returned
    engineOut       \* outputs of the forecast engine applied on its own

vars == <<tz, dailySales, inventory, pc, failedIn, ack, emitted, forecastResult,
          inserts, attempts, reported, store, storeErrors, minted, salesQuery,
          engineOut>>

(***************************************************************************)
(* Bounds of the model.                                                    *)
(***************************************************************************)
\* how many insert errors the result store returns in one behaviour
MaxStoreErrors == 1

\* how many times the forecast engine is applied to the same facts
MaxApplications == 2

\* the pipeline runs (trigger calls) of one behaviour
Runs == {"runA", "runB"}

None == "none"

(***************************************************************************)
(* Calendar arithmetic of the JavaScript Date object (ECMAScript Date:     *)
(* MakeDay, LocalTime, UTC), as used by generate-forecast.step.ts 99-116.  *)
(***************************************************************************)
IsLeap(y) == (y % 4 = 0 /\ y % 100 # 0) \/ y % 400 = 0

DaysInMonth(y, m) ==
    IF m = 2 THEN (IF IsLeap(y) THEN 29 ELSE 28)
    ELSE IF m \in {4, 6, 9, 11} THEN 30 ELSE 31

\* days from 1970-01-01 to y-01-01
DaysBeforeYear(y) ==
    365 * (y - 1970) + ((y - 1969) \div 4) - ((y - 1901) \div 100)
        + ((y - 1601) \div 400)

RECURSIVE DaysBeforeMonth(_, _)
DaysBeforeMonth(y, m) ==
    IF m = 1 THEN 0 ELSE DaysBeforeMonth(y, m - 1) + DaysInMonth(y, m - 1)

\* MakeDay(year, month, date): the day number; date may exceed the month's length
MakeDay(y, m, d) == DaysBeforeYear(y) + DaysBeforeMonth(y, m) + d - 1

YearFromDay(n) ==
    CHOOSE y \in (1970 + n \div 366)..(1970 + n \div 365) :
        DaysBeforeYear(y) <= n /\ n < DaysBeforeYear(y + 1)

MonthFromDay(n) ==
    LET y == YearFromDay(n)
    IN  CHOOSE m \in 1..12 :
            /\ MakeDay(y, m, 1) <= n
            /\ n < MakeDay(y, m, 1) + DaysInMonth(y, m)

DateFromDay(n) ==
    LET y == YearFromDay(n)
        m == MonthFromDay(n)
    IN  <<y, m, n - MakeDay(y, m, 1) + 1>>

\* day of the week, 0 = Sunday (1970-01-01 was a Thursday)
WeekDay(n) == (n + 4) % 7

LastSunday(y, m) ==
    CHOOSE n \in MakeDay(y, m, 1)..(MakeDay(y, m, 1) + DaysInMonth(y, m) - 1) :
        /\ WeekDay(n) = 0
        /\ n + 7 > MakeDay(y, m, 1) + DaysInMonth(y, m) - 1

\* The time zones of the deployments modelled: one without and one with
\* daylight saving time (clocks go forward on the last Sunday of March at
\* 01:00 UTC and back on the last Sunday of October at 01:00 UTC).
TimeZones == {"UTC", "Europe/Berlin"}

\* LocalTZA(t, true): offset in hours of zone z at the UTC time t
OffsetAtUTC(z, t) ==
    IF z = "UTC" THEN 0
    ELSE LET y == YearFromDay(t \div 24)
             start == 24 * LastSunday(y, 3) + 1
             end == 24 * LastSunday(y, 10) + 1
         IN  IF start <= t /\ t < end THEN 2 ELSE 1

\* LocalTZA(t, false): offset in hours of zone z at the local time tl; a local
\* time skipped or repeated by a transition takes the offset before it
OffsetAtLocal(z, tl) ==
    IF z = "UTC" THEN 0
    ELSE LET y == YearFromDay(tl \div 24)
             start == 24 * LastSunday(y, 3) + 3
             end == 24 * LastSunday(y, 10) + 3
         IN  IF start <= tl /\ tl < end THEN 2 ELSE 1

\* new Date('YYYY-MM-DD'): a date-only string is UTC midnight
ParseDate(date) == 24 * MakeDay(date[1], date[2], date[3])

\* d.setDate(d.getDate() + daysAhead): the fields are those of local time
SetDateAhead(z, t, daysAhead) ==
    LET lt == t + OffsetAtUTC(z, t)
        local == DateFromDay(lt \div 24)
        newLocal == 24 * MakeDay(local[1], local[2], local[3] + daysAhead)
                        + (lt % 24)
    IN  newLocal - OffsetAtLocal(z, newLocal)

\* d.toISOString().split('T')[0]: the UTC calendar date
ISODate(t) == DateFromDay(t \div 24)

\* futureDate of period daysAhead, lines 99-103 and 116
FutureDate(z, lastDate, daysAhead) ==
    ISODate(SetDateAhead(z, ParseDate(lastDate), daysAhead))

\* the calendar date n days after date
AddDays(date, n) == DateFromDay(MakeDay(date[1], date[2], date[3]) + n)

(***************************************************************************)
(* The forecast engine: generate-forecast.step.ts, steps 1-3 and summary.  *)
(***************************************************************************)
\* window of the moving average (line 69) and number of periods (line 100)
WindowSize == 7
Horizon == 5

RECURSIVE SumValues(_, _, _)
\* sum of rows[from..to].value
SumValues(rows, from, to) ==
    IF from > to THEN 0 ELSE rows[from].value + SumValues(rows, from + 1, to)

\* the averages without that of the most recent window
MovingAveragesOffByOne(sales) ==
    IF Len(sales) <= WindowSize THEN <<>>
    ELSE [i \in 1..(Len(sales) - WindowSize) |->
              <<SumValues(sales, i, i + WindowSize - 1), WindowSize>>]

\* step 1, lines 68-73: one average per window of 7 consecutive facts
MovingAverages(sales) ==
    IF Len(sales) < WindowSize THEN <<>>
    ELSE [i \in 1..(Len(sales) - WindowSize + 1) |->
              <<SumValues(sales, i, i + WindowSize - 1), WindowSize>>]

\* the mean of the facts there are when there is no full window
FinalMovingAverageOfAll(sales) ==
    LET mas == MovingAverages(sales)
    IN  IF Len(mas) = 0 THEN <<SumValues(sales, 1, Len(sales)), Len(sales)>>
        ELSE mas[Len(mas)]

\* line 74: movingAverages[movingAverages.length - 1] || 0
FinalMovingAverage(sales) ==
    LET mas == MovingAverages(sales)
    IN  IF Len(mas) = 0 THEN <<0, 1>> ELSE mas[Len(mas)]

\* step 2, lines 84-87: (lastSales - firstSales) / daysCount
TrendSlope(sales) ==
    <<sales[Len(sales)].value - sales[1].value, Len(sales)>>

\* line 106: finalMovingAverage + trendSlope * daysAhead
DeterministicValue(sales, daysAhead) ==
    LET ma == FinalMovingAverage(sales)
        sl == TrendSlope(sales)
    IN  <<ma[1] * sl[2] + sl[1] * daysAhead * ma[2], ma[2] * sl[2]>>

\* Math.round(q * 100): the nearest integer, a half going up; q * 100 / 100
\* is then that number of hundredths
Round100(q) == (200 * q[1] + q[2]) \div (2 * q[2])

RECURSIVE GCD(_, _)
GCD(a, b) == IF b = 0 THEN a ELSE GCD(b, a % b)

\* the rational q in lowest terms
Reduce(q) ==
    LET g == GCD(IF q[1] < 0 THEN 0 - q[1] ELSE q[1], q[2])
    IN  <<q[1] \div g, q[2] \div g>>

\* floor(Math.sqrt(e)) of a natural number e: the largest s with s * s <= e,
\* found by bisection
ISqrt(e) ==
    LET top == IF e < 46340 THEN e ELSE 46340
        search[lo \in 0..top, hi \in 0..top] ==
            IF lo = hi THEN lo
            ELSE LET mid == (lo + hi + 1) \div 2
                 IN  IF mid * mid <= e THEN search[mid, hi]
                     ELSE search[lo, mid - 1]
    IN  search[0, top]

\* floor(b * Math.sqrt(e)) for naturals b > 0 and e
FloorMulSqrt(b, e) ==
    LET s == ISqrt(e)
        rest == b * b * (e - s * s)
        t == CHOOSE t \in 0..(b - 1) :
                 /\ t * (2 * b * s + t) <= rest
                 /\ (t + 1) * (2 * b * s + t + 1) > rest
    IN  b * s + t

\* ceil(b * Math.sqrt(e))
CeilMulSqrt(b, e) ==
    IF ISqrt(e) * ISqrt(e) = e THEN b * ISqrt(e) ELSE FloorMulSqrt(b, e) + 1

RECURSIVE SumSquares(_, _, _)
\* sum of the squares of rows[from..to].value
SumSquares(rows, from, to) ==
    IF from > to THEN 0
    ELSE rows[from].value * rows[from].value + SumSquares(rows, from + 1, to)

\* lines 109-111: variance of the historical values about their average avg =
\* S / n, as the rational (n * sum of squares - S * S) / (n * n)
Variance(sales) ==
    LET n == Len(sales)
        S == SumValues(sales, 1, n)
    IN  <<n * SumSquares(sales, 1, n) - S * S, n * n>>

\* lines 112-113: confidenceMargin = Math.sqrt(variance) * confidenceLevel.
\* With the confidence level in hundredths, 100 * confidenceMargin is
\* Math.sqrt(radicand) / n; the pair <<radicand, n>> stands for it.
ConfidenceMargin(sales, confidenceLevel) ==
    <<confidenceLevel * confidenceLevel * Variance(sales)[1], Len(sales)>>

\* Math.round((q - margin) * 100): floor(100 * q + 1/2 - sqrt(e) / n)
RoundBelow(q, margin) ==
    LET h == Reduce(<<200 * q[1] + q[2], 2 * q[2]>>)
    IN  (h[1] * margin[2] - CeilMulSqrt(h[2], margin[1]))
            \div (h[2] * margin[2])

\* Math.round((q + margin) * 100): floor(100 * q + 1/2 + sqrt(e) / n)
RoundAbove(q, margin) ==
    LET h == Reduce(<<200 * q[1] + q[2], 2 * q[2]>>)
    IN  (h[1] * margin[2] + FloorMulSqrt(h[2], margin[1]))
            \div (h[2] * margin[2])

\* the interval with the margin added below and taken off above
ConfidenceIntervalSwapped(deterministicValue, confidenceMargin) ==
    [lower |-> RoundAbove(deterministicValue, confidenceMargin),
     upper |-> RoundBelow(deterministicValue, confidenceMargin)]

\* lines 118-121: the interval about the unrounded deterministicValue
ConfidenceInterval(deterministicValue, confidenceMargin) ==
    [lower |-> RoundBelow(deterministicValue, confidenceMargin),
     upper |-> RoundAbove(deterministicValue, confidenceMargin)]

\* step 3, lines 99-123
ForecastPeriods(z, sales, confidenceLevel) ==
    [i \in 1..Horizon |->
        [date |-> FutureDate(z, sales[Len(sales)].date, i),
         forecastValue |-> Round100(DeterministicValue(sales, i)),
         confidenceInterval |->
             ConfidenceInterval(DeterministicValue(sales, i),
                                ConfidenceMargin(sales, confidenceLevel))]]

RECURSIVE SumSeq(_)
SumSeq(s) == IF Len(s) = 0 THEN 0 ELSE Head(s) + SumSeq(Tail(s))

SeqMin(s) == CHOOSE v \in {s[i] : i \in 1..Len(s)} :
                 \A i \in 1..Len(s) : v <= s[i]
SeqMax(s) == CHOOSE v \in {s[i] : i \in 1..Len(s)} :
                 \A i \in 1..Len(s) : v >= s[i]

\* the summary with the mean cut off after 2 decimal places
ForecastSummaryTruncates(sales, periods) ==
    LET forecastValues == [i \in 1..Len(periods) |-> periods[i].forecastValue]
        n == Len(forecastValues)
    IN  [averageForecast |-> SumSeq(forecastValues) \div n,
         minForecast |-> SeqMin(forecastValues),
         maxForecast |-> SeqMax(forecastValues),
         trend |-> forecastValues[n] - forecastValues[1],
         movingAverage |-> FinalMovingAverage(sales),
         trendSlope |-> TrendSlope(sales)]

\* lines 126, 134-142: the summary, from the rounded period values
ForecastSummary(sales, periods) ==
    LET forecastValues == [i \in 1..Len(periods) |-> periods[i].forecastValue]
        n == Len(forecastValues)
    IN  [averageForecast |-> (2 * SumSeq(forecastValues) + n) \div (2 * n),
         minForecast |-> SeqMin(forecastValues),
         maxForecast |-> SeqMax(forecastValues),
         trend |-> forecastValues[n] - forecastValues[1],
         movingAverage |-> FinalMovingAverage(sales),
         trendSlope |-> TrendSlope(sales)]

\* line 99 reads .date of the last fact: a TypeError when there is no fact
ComputeThrows(sales) == Len(sales) = 0

\* the forecastResult with the product id in place of the request id
BuildForecastResultLosesId(z, requestId, historicalData, forecastParameters) ==
    LET periods == ForecastPeriods(z, historicalData.dailySales,
                                   forecastParameters.confidenceLevel)
    IN  [requestId |-> historicalData.productId,
         productId |-> historicalData.productId,
         forecastMethod |-> "deterministic-moving-average-with-trend",
         confidenceLevel |-> forecastParameters.confidenceLevel,
         forecastPeriods |-> periods,
         forecastSummary |-> ForecastSummary(historicalData.dailySales, periods),
         forecastRationale |-> ""]

\* lines 57-65: the summary of the input the handler logs; the only use of
\* the inventory series.  A quotient is <<sum, length>>: <<0, 0>> is the NaN
\* of an empty series.
InputSummary(historicalData) ==
    [totalSales |-> SumValues(historicalData.dailySales, 1,
                              Len(historicalData.dailySales)),
     averageDailySales |->
         <<SumValues(historicalData.dailySales, 1,
                     Len(historicalData.dailySales)),
           Len(historicalData.dailySales)>>,
     averageInventory |->
         <<SumValues(historicalData.inventorySnapshots, 1,
                     Len(historicalData.inventorySnapshots)),
           Len(historicalData.inventorySnapshots)>>]

\* the forecastResult with each value capped at the latest inventory level
BuildForecastResultCapsAtStock(z, requestId, historicalData, forecastParameters) ==
    LET levels == historicalData.inventorySnapshots
        cap(v) == IF Len(levels) > 0 /\ v > 100 * levels[Len(levels)].value
                  THEN 100 * levels[Len(levels)].value ELSE v
        periods == [i \in 1..Horizon |->
                       [ForecastPeriods(z, historicalData.dailySales,
                                        forecastParameters.confidenceLevel)[i]
                            EXCEPT !.forecastValue = cap(@)]]
    IN  [requestId |-> requestId,
         productId |-> historicalData.productId,
         forecastMethod |-> "deterministic-moving-average-with-trend",
         confidenceLevel |-> forecastParameters.confidenceLevel,
         forecastPeriods |-> periods,
         forecastSummary |-> ForecastSummary(historicalData.dailySales, periods),
         forecastRationale |-> ""]

\* the forecastResult with the method the parameters name
BuildForecastResultCopiesMethod(z, requestId, historicalData, forecastParameters) ==
    LET periods == ForecastPeriods(z, historicalData.dailySales,
                                   forecastParameters.confidenceLevel)
    IN  [requestId |-> requestId,
         productId |-> historicalData.productId,
         forecastMethod |-> forecastParameters.method,
         confidenceLevel |-> forecastParameters.confidenceLevel,
         forecastPeriods |-> periods,
         forecastSummary |-> ForecastSummary(historicalData.dailySales, periods),
         forecastRationale |-> ""]

\* lines 127-144: the forecastResult object before the rationale step
\* (generatedAt, the wall-clock time of the run, is left out)
BuildForecastResult(z, requestId, historicalData, forecastParameters) ==
    LET periods == ForecastPeriods(z, historicalData.dailySales,
                                   forecastParameters.confidenceLevel)
    IN  [requestId |-> requestId,
         productId |-> historicalData.productId,
         forecastMethod |-> "deterministic-moving-average-with-trend",
         confidenceLevel |-> forecastParameters.confidenceLevel,
         forecastPeriods |-> periods,
         forecastSummary |-> ForecastSummary(historicalData.dailySales, periods),
         forecastRationale |-> ""]

(***************************************************************************)
(* The second revision of the generate handler in the same file (lines     *)
(* 266-334): the average of the data points with a random variation.       *)
(***************************************************************************)
\* line 284: Math.random() * 20 - 10, a number of [-10, 10); the values drawn
RandomVariations == {<<0 - 10, 1>>, <<15, 2>>}

\* the draws of one execution, one per period
VariationDraws == [1..Horizon -> RandomVariations]

\* the rational a + b
RatAdd(a, b) == <<a[1] * b[2] + b[1] * a[2], a[2] * b[2]>>

\* a <= b for rationals
RatLeq(a, b) == a[1] * b[2] <= b[1] * a[2]

\* lines 278-316: the forecastResult of the second revision
DummyForecastResult(z, requestId, historicalData, forecastParameters, draws) ==
    LET points == historicalData.dataPoints
        average == <<SumValues(points, 1, Len(points)), Len(points)>>
        forecastValues == [i \in 1..Horizon |-> RatAdd(average, draws[i])]
        least == CHOOSE i \in 1..Horizon :
                     \A j \in 1..Horizon : RatLeq(forecastValues[i], forecastValues[j])
        most == CHOOSE i \in 1..Horizon :
                    \A j \in 1..Horizon : RatLeq(forecastValues[j], forecastValues[i])
    IN  [requestId |-> requestId,
         productId |-> historicalData.productId,
         forecastMethod |-> forecastParameters.method,
         confidenceLevel |-> forecastParameters.confidenceLevel,
         forecastPeriods |->
             [i \in 1..Horizon |->
                 [date |-> FutureDate(z, points[Len(points)].date, i),
                  forecastValue |-> Round100(forecastValues[i]),
                  confidenceInterval |->
                      [lower |-> Round100(<<9 * forecastValues[i][1],
                                            10 * forecastValues[i][2]>>),
                       upper |-> Round100(<<11 * forecastValues[i][1],
                                            10 * forecastValues[i][2]>>)]]],
         forecastSummary |->
             [averageForecast |-> Round100(average),
              minForecast |-> Reduce(forecastValues[least]),
              maxForecast |-> Reduce(forecastValues[most]),
              trend |-> Round100(RatAdd(forecastValues[Horizon],
                                        <<0 - forecastValues[1][1],
                                          forecastValues[1][2]>>))]]

(***************************************************************************)
(* The rationale step: GeminiClient (generate-forecast.step.ts 358-457)    *)
(* and its use by the generate handler (lines 160-224).                    *)
(***************************************************************************)
Abs(n) == IF n < 0 THEN 0 - n ELSE n

RECURSIVE Pow10(_)
Pow10(f) == IF f = 0 THEN 1 ELSE 10 * Pow10(f - 1)

RECURSIVE ZeroPad(_, _)
\* the digits of n, padded with zeros on the left to width w
ZeroPad(n, w) ==
    IF w <= 1 \/ n >= Pow10(w - 1) THEN ToString(n)
    ELSE "0" \o ZeroPad(n, w - 1)

\* Number.prototype.toFixed(f) of the rational q, f >= 1: the nearest
\* multiple of 10^-f of the magnitude, a half going up, after the sign
ToFixed(q, f) ==
    LET n == (2 * Abs(q[1]) * Pow10(f) + q[2]) \div (2 * q[2])
    IN  (IF q[1] < 0 THEN "-" ELSE "")
            \o ToString(n \div Pow10(f)) \o "." \o ZeroPad(n % Pow10(f), f)

\* lines 166-172: the explanation request of a run
ExplanationRequest(sales, fr) ==
    [movingAverage |-> fr.forecastSummary.movingAverage,
     trendSlope |-> fr.forecastSummary.trendSlope,
     historicalDataPoints |-> Len(sales),
     forecastHorizon |-> Len(fr.forecastPeriods),
     productId |-> fr.productId]

\* line 455: the text of the fallback explanation for a direction word
FallbackTemplate(request, trendDirection) ==
    "Forecast based on deterministic analysis: "
        \o ToFixed(request.movingAverage, 2)
        \o " moving average with " \o trendDirection
        \o " trend (slope: " \o ToFixed(request.trendSlope, 4)
        \o "). Generated from " \o ToString(request.historicalDataPoints)
        \o " historical data points for "
        \o ToString(request.forecastHorizon) \o "-day horizon."

\* the fallback explanation that knows no stable trend
GenerateFallbackExplanationNoStable(request) ==
    FallbackTemplate(request,
                     IF request.trendSlope[1] >= 0 THEN "positive"
                     ELSE "negative")

\* GeminiClient.generateFallbackExplanation, lines 451-456
GenerateFallbackExplanation(request) ==
    LET trendDirection ==
            IF request.trendSlope[1] > 0 THEN "positive"
            ELSE IF request.trendSlope[1] < 0 THEN "negative" ELSE "stable"
    IN  FallbackTemplate(request, trendDirection)

\* What the text generator does with one call:
\*   text        generateContent answers, response.text() is non-empty
\*   emptyText   generateContent answers, response.text() is ''
\*   apiError    generateContent rejects (auth failure, timeout, bad response)
\*   clientThrow an exception leaves generateForecastExplanation itself
GeneratorOutcomes == {"text", "emptyText", "apiError", "clientThrow"}

\* process.env.GEMINI_API_KEY || '' : configured or not
ApiKeys == {"", "key"}

\* without an API key the service rejects the call
OutcomesFor(apiKey) == IF apiKey = "" THEN {"apiError"} ELSE GeneratorOutcomes

GeneratedText == "Based on the moving average and trend slope, this forecast reflects the established sales pattern."

\* a text of blanks, which JavaScript takes for true like any non-empty string
BlankText == " "

\* the answers of a configured generator, a text of blanks among them
AnswerOutcomes == GeneratorOutcomes \cup {"blankText"}

\* lines 415-417: response.text() of a call that was answered
ResponseText(outcome) ==
    IF outcome = "text" THEN GeneratedText
    ELSE IF outcome = "blankText" THEN BlankText ELSE ""

\* GeminiClient.generateForecastExplanation, lines 374-444 (try / catch)
GenerateForecastExplanation(outcome) ==
    IF outcome \in {"text", "blankText", "emptyText"}
    THEN [explanation |-> ResponseText(outcome), success |-> TRUE]
    ELSE [explanation |-> "", success |-> FALSE]

\* the rationale step without the test of the text: success alone decides
RationaleStepTrustsSuccess(request, outcome) ==
    IF outcome = "clientThrow"
    THEN [threw |-> FALSE, rationale |-> GenerateFallbackExplanation(request)]
    ELSE LET explanationResponse == GenerateForecastExplanation(outcome)
         IN  IF explanationResponse.success
             THEN [threw |-> FALSE,
                   rationale |-> explanationResponse.explanation]
             ELSE [threw |-> FALSE,
                   rationale |-> GenerateFallbackExplanation(request)]

\* the rationale step without the catch of the handler
RationaleStepNoCatch(request, outcome) ==
    IF outcome = "clientThrow"
    THEN [threw |-> TRUE, rationale |-> ""]
    ELSE LET explanationResponse == GenerateForecastExplanation(outcome)
         IN  IF explanationResponse.success
                    /\ explanationResponse.explanation # ""
             THEN [threw |-> FALSE,
                   rationale |-> explanationResponse.explanation]
             ELSE [threw |-> FALSE,
                   rationale |-> GenerateFallbackExplanation(request)]

\* the rationale step that never asks the generator
RationaleStepAlwaysFallback(request, outcome) ==
    [threw |-> FALSE, rationale |-> GenerateFallbackExplanation(request)]

\* lines 160-224: the try / catch of the handler around the generator.
\* threw: an exception leaves the step; rationale: the forecastRationale set.
RationaleStep(request, outcome) ==
    IF outcome = "clientThrow"
    THEN [threw |-> FALSE, rationale |-> GenerateFallbackExplanation(request)]
    ELSE LET explanationResponse == GenerateForecastExplanation(outcome)
         IN  IF explanationResponse.success
                    /\ explanationResponse.explanation # ""
             THEN [threw |-> FALSE,
                   rationale |-> explanationResponse.explanation]
             ELSE [threw |-> FALSE,
                   rationale |-> GenerateFallbackExplanation(request)]

(***************************************************************************)
(* The trigger: forecast-api.step.ts, handler lines 23-54.                 *)
(***************************************************************************)
\* an absent (or empty) field of the request is the empty string
Default(v, d) == IF v = "" THEN d ELSE v

TriggerInputs ==
    {[productId |-> "", timeRange |-> ""],
     [productId |-> "product-123", timeRange |-> "last-7-days"]}

\* the k-th distinct value of Math.random().toString(36).substring(2, 11)
RequestIdName(k) == "req" \o ToString(k)

\* the trigger without the defaults of lines 25-26
ApiHandlerNoDefaults(requestId, input) ==
    [event |-> [topic |-> "load-historical-facts",
                data |-> [requestId |-> requestId,
                          productId |-> input.productId,
                          timeRange |-> input.timeRange]],
     response |-> [status |-> 200,
                   body |-> [message |-> "Forecast pipeline started successfully",
                             status |-> "processing",
                             requestId |-> requestId,
                             productId |-> input.productId,
                             timeRange |-> input.timeRange]]]

\* lines 24-54: the event emitted and the response returned
ApiHandler(requestId, input) ==
    LET productId == Default(input.productId, "default-product")
        timeRange == Default(input.timeRange, "last-30-days")
    IN  [event |-> [topic |-> "load-historical-facts",
                    data |-> [requestId |-> requestId,
                              productId |-> productId,
                              timeRange |-> timeRange]],
         response |-> [status |-> 200,
                       body |-> [message |-> "Forecast pipeline started successfully",
                                 status |-> "processing",
                                 requestId |-> requestId,
                                 productId |-> productId,
                                 timeRange |-> timeRange]]]

(***************************************************************************)
(* The load step: load-historical-facts.step.ts, handler lines 21-148.     *)
(***************************************************************************)
\* what a Supabase select returns: an error, or the rows of the product
QueryResponses(rows) ==
    {[error |-> TRUE, data |-> <<>>], [error |-> FALSE, data |-> rows]}

\* the load step without the test for an empty sales result
LoadStepPassesEmpty(input, salesResp, inventoryResp) ==
    LET productId == Default(input.productId, "default-product")
        timeRange == Default(input.timeRange, "last-30-days")
    IN  IF salesResp.error
        THEN [threw |-> TRUE]
        ELSE IF inventoryResp.error \/ Len(inventoryResp.data) = 0
        THEN [threw |-> TRUE]
        ELSE [threw |-> FALSE,
              event |->
                [topic |-> "generate-forecast",
                 data |->
                   [requestId |-> input.requestId,
                    historicalData |->
                      [productId |-> productId,
                       timeRange |-> timeRange,
                       dailySales |->
                         [i \in 1..Len(salesResp.data) |->
                            [date |-> salesResp.data[i].sales_date,
                             value |-> salesResp.data[i].quantity]],
                       inventorySnapshots |->
                         [i \in 1..Len(inventoryResp.data) |->
                            [date |-> inventoryResp.data[i].snapshot_date,
                             value |-> inventoryResp.data[i].inventory_level]]],
                    forecastParameters |->
                      [method |-> "exponential-smoothing",
                       confidenceLevel |-> 95]]]]

\* lines 24-145: throws, or emits generate-forecast.  The rows of a product
\* in the fact store are those the queries select: the ones of the last 30
\* days (lines 42-51, 76-84), ascending by date.
LoadStep(input, salesResp, inventoryResp) ==
    LET productId == Default(input.productId, "default-product")
        timeRange == Default(input.timeRange, "last-30-days")
    IN  IF salesResp.error \/ Len(salesResp.data) = 0
        THEN [threw |-> TRUE]
        ELSE IF inventoryResp.error \/ Len(inventoryResp.data) = 0
        THEN [threw |-> TRUE]
        ELSE [threw |-> FALSE,
              event |->
                [topic |-> "generate-forecast",
                 data |->
                   [requestId |-> input.requestId,
                    historicalData |->
                      [productId |-> productId,
                       timeRange |-> timeRange,
                       dailySales |->
                         [i \in 1..Len(salesResp.data) |->
                            [date |-> salesResp.data[i].sales_date,
                             value |-> salesResp.data[i].quantity]],
                       inventorySnapshots |->
                         [i \in 1..Len(inventoryResp.data) |->
                            [date |-> inventoryResp.data[i].snapshot_date,
                             value |-> inventoryResp.data[i].inventory_level]]],
                    forecastParameters |->
                      [method |-> "exponential-smoothing",
                       confidenceLevel |-> 95]]]]

(***************************************************************************)
(* The generate step: generate-forecast.step.ts, handler lines 41-234.     *)
(***************************************************************************)
\* lines 42-155: throws, or leaves the forecastResult without its rationale
ComputeStep(z, input) ==
    IF ComputeThrows(input.historicalData.dailySales)
    THEN [threw |-> TRUE]
    ELSE [threw |-> FALSE,
          forecastResult |->
              BuildForecastResult(z, input.requestId, input.historicalData,
                                  input.forecastParameters)]

\* lines 227-233: the event emitted at the end of the handler
PersistEvent(requestId, fr) ==
    [topic |-> "persist-forecast-result",
     data |-> [requestId |-> requestId, forecastResult |-> fr]]

(***************************************************************************)
(* The persist step: persist-forecast-result.step.ts, handler lines 43-144, *)
(* and its revision that re-issues a failed insert (unnamed/part_002).     *)
(***************************************************************************)
\* field?.toFixed(2) || 'N/A' of an optional field of the summary
FixedOrNA(summary, field) ==
    IF field \in DOMAIN summary THEN ToFixed(summary[field], 2) ELSE "N/A"

\* the rationale of the rows as it comes, without the template
PersistRationaleAsGiven(fr) ==
    IF "forecastRationale" \in DOMAIN fr THEN fr.forecastRationale ELSE ""

\* lines 66-69: the rationale of the rows; forecastRationale is not in the
\* input schema (line 30 lets it pass), so it may be absent or empty
PersistRationale(fr) ==
    IF "forecastRationale" \in DOMAIN fr /\ fr.forecastRationale # ""
    THEN fr.forecastRationale
    ELSE "Forecast generated using " \o fr.forecastMethod \o " method. "
            \o "Moving average: " \o FixedOrNA(fr.forecastSummary, "movingAverage")
            \o ", Trend slope: " \o FixedOrNA(fr.forecastSummary, "trendSlope")
            \o "."

\* the row with the method sentence of the README's example as explanation
InsertPayloadMethodExplanation(fr, period) ==
    [store_id |-> "00000000-0000-0000-0000-000000000000",
     product_id |-> fr.productId,
     forecast_date |-> period.date,
     forecast_quantity |-> (period.forecastValue + 50) \div 100,
     model_version |-> "v0-dummy",
     explanation |-> "Forecast generated using " \o fr.forecastMethod \o " method",
     forecast_rationale |-> PersistRationale(fr)]

\* lines 73-81: the row handed to insert()
InsertPayload(fr, period) ==
    [store_id |-> "00000000-0000-0000-0000-000000000000",
     product_id |-> fr.productId,
     forecast_date |-> period.date,
     forecast_quantity |-> (period.forecastValue + 50) \div 100,
     model_version |-> "v0-dummy",
     explanation |-> PersistRationale(fr),
     forecast_rationale |-> PersistRationale(fr)]

\* part_002 lines 119-125: the row handed to the second insert is
\* fallbackInsertData, the copy { ...insertData } with every column of the
\* first; fallbackData, the copy without forecast_rationale (line 120), is
\* not used
FallbackInsertData(insertData) == [col \in DOMAIN insertData |-> insertData[col]]

\* an upsert on (product_id, forecast_date) in place of the insert
StoreUpsert(table, id, payload) ==
    {row \in table : \/ row.product_id # payload.product_id
                     \/ row.forecast_date # payload.forecast_date}
        \cup {[id |-> id] @@ payload}

\* the insert replacing the forecast rows the product has
StoreInsertReplacesProduct(table, id, payload) ==
    {row \in table : row.product_id # payload.product_id}
        \cup {[id |-> id] @@ payload}

\* an insert that numbers the row by the rows of the run the table has
StoreInsertNumbered(table, id, payload) ==
    table \cup {[id |-> id,
                 seq |-> Cardinality({row \in table : row.id[1] = id[1]})]
                    @@ payload}

\* lines 71-82: .insert(row); the table gives the row its id
StoreInsert(table, id, payload) == table \cup {[id |-> id] @@ payload}

\* a compensating delete of the rows of the run
StoreOnErrorRollback(table, r) == {row \in table : row.id[1] # r}

\* lines 84-93: on an error the function logs and throws; the table is not
\* touched
StoreOnError(table, r) == table

\* lines 84-104: what the period's async function does when its insert
\* returns, in the current handler
InsertReturns(attempt, error) == IF error THEN "throw" ELSE "done"

\* part_002 lines 103-148: the same in the revision with a second insert
InsertReturnsRetry(attempt, error) ==
    IF error /\ attempt = 1 THEN "reissue"
    ELSE IF error THEN "throw" ELSE "done"

PeriodStep(revision, attempt, error) ==
    IF revision = "retry" THEN InsertReturnsRetry(attempt, error)
    ELSE InsertReturns(attempt, error)

\* Promise.allSettled in place of Promise.all: success once all have settled
PersistReportSettled(states) ==
    IF \A i \in DOMAIN states : states[i] \in {"ok", "err"} THEN "success"
    ELSE None

\* Promise.any in place of Promise.all: success with the first fulfilled
PersistReportAny(states) ==
    IF \E i \in DOMAIN states : states[i] = "ok" THEN "success"
    ELSE IF \A i \in DOMAIN states : states[i] = "err" THEN "failed"
    ELSE None

\* lines 108-143: await Promise.all(insertPromises) in try / catch; the
\* report made for the states of the period functions, if one is due
PersistReport(states) ==
    IF \E i \in DOMAIN states : states[i] = "err" THEN "failed"
    ELSE IF \A i \in DOMAIN states : states[i] = "ok" THEN "success"
    ELSE None

(***************************************************************************)
(* The state: the fact store, the runs and the result store.               *)
(***************************************************************************)
Products == {"default-product", "product-123"}

\* rows of forecast.daily_sales for the values, one per day up to lastDate
SalesRows(values, lastDate) ==
    [i \in 1..Len(values) |->
        [sales_date |-> AddDays(lastDate, i - Len(values)),
         quantity |-> values[i]]]

\* rows of forecast.inventory_snapshots, likewise
InventoryRows(levels, lastDate) ==
    [i \in 1..Len(levels) |->
        [snapshot_date |-> AddDays(lastDate, i - Len(levels)),
         inventory_level |-> levels[i]]]

\* the sales series the fact store may hold for product-123: a week, eight
\* days, fewer days than the window, a week of constant sales, and a sale
\* followed by a week without any
SalesValueChoices ==
    {<<100, 110, 105, 120, 115, 108, 112>>,
     <<90, 100, 110, 105, 120, 115, 108, 112>>,
     <<5, 3, 4>>,
     <<50, 50, 50, 50, 50, 50, 50>>,
     <<9, 0, 0, 0, 0, 0, 0, 0>>}

\* the dates its last fact may have: mid-month, ends of months with 31, 28
\* and 29 days, the end of a year, and the days before the clock changes
LastDates ==
    {<<2023, 1, 7>>, <<2023, 1, 29>>, <<2023, 2, 26>>, <<2024, 2, 26>>,
     <<2023, 12, 29>>, <<2024, 12, 31>>, <<2023, 6, 28>>,
     <<2023, 3, 25>>, <<2024, 3, 28>>, <<2023, 10, 27>>}

Last(s) == s[Len(s)]

InitRuns ==
    /\ pc = [r \in Runs |-> "Idle"]
    /\ failedIn = [r \in Runs |-> None]
    /\ ack = [r \in Runs |-> <<>>]
    /\ emitted = [r \in Runs |-> <<>>]
    /\ forecastResult = [r \in Runs |-> <<>>]
    /\ inserts = [r \in Runs |-> <<>>]
    /\ attempts = [r \in Runs |-> <<>>]
    /\ reported = [r \in Runs |-> None]
    /\ store = {}
    /\ storeErrors = 0
    /\ minted = 0
    /\ salesQuery = [r \in Runs |-> <<>>]
    /\ engineOut = <<>>

\* The pipeline starts with no run triggered and an empty result store; the
\* fact store holds a week of sales of product-123, and of the default
\* product a stock level but no sale.
Init ==
    /\ tz \in TimeZones
    /\ dailySales =
          [p \in Products |->
              IF p = "product-123"
              THEN SalesRows(<<100, 110, 105, 120, 115, 108, 112>>, <<2023, 1, 7>>)
              ELSE <<>>]
    /\ \E levels \in {<<>>, <<40, 38>>} :
          inventory =
              [p \in Products |->
                  IF p = "product-123"
                  THEN InventoryRows(levels, <<2023, 1, 7>>)
                  ELSE InventoryRows(<<12>>, <<2023, 1, 7>>)]
    /\ InitRuns

(***************************************************************************)
(* The actions: one per handler, or per step of a handler between awaits.  *)
(***************************************************************************)
Fail(r, stage) ==
    /\ pc' = [pc EXCEPT ![r] = "Failed"]
    /\ failedIn' = [failedIn EXCEPT ![r] = stage]

\* POST /forecast: the trigger handler
ForecastAPI(r) ==
    /\ pc[r] = "Idle"
    /\ \E input \in TriggerInputs, k \in 1..(minted + 1) :
          LET out == ApiHandler(RequestIdName(k), input)
          IN  /\ emitted' = [emitted EXCEPT ![r] = <<out.event>>]
              /\ ack' = [ack EXCEPT ![r] = <<out.response>>]
              /\ minted' = IF k > minted THEN k ELSE minted
    /\ pc' = [pc EXCEPT ![r] = "LoadingFacts"]
    /\ UNCHANGED <<tz, dailySales, inventory, failedIn, forecastResult, inserts,
                   attempts, reported, store, storeErrors, engineOut,
                   salesQuery>>

\* the load handler, on the load-historical-facts event of the run
LoadHistoricalFacts(r) ==
    /\ pc[r] = "LoadingFacts"
    /\ LET input == Last(emitted[r]).data
           productId == Default(input.productId, "default-product")
       IN  \E salesResp \in QueryResponses(dailySales[productId]),
              inventoryResp \in QueryResponses(inventory[productId]) :
              LET out == LoadStep(input, salesResp, inventoryResp)
              IN  /\ salesQuery' = [salesQuery EXCEPT ![r] = <<salesResp>>]
                  /\ IF out.threw
                     THEN Fail(r, "LoadingFacts") /\ UNCHANGED emitted
                     ELSE /\ emitted' = [emitted EXCEPT ![r] = Append(@, out.event)]
                          /\ pc' = [pc EXCEPT ![r] = "Computing"]
                          /\ UNCHANGED failedIn
    /\ UNCHANGED <<tz, dailySales, inventory, ack, forecastResult, inserts,
                   attempts, reported, store, storeErrors, minted, engineOut>>

\* the generate handler up to its await of the text generator
ComputeForecast(r) ==
    /\ pc[r] = "Computing"
    /\ LET out == ComputeStep(tz, Last(emitted[r]).data)
       IN  IF out.threw
           THEN Fail(r, "Computing") /\ UNCHANGED forecastResult
           ELSE /\ forecastResult' =
                      [forecastResult EXCEPT ![r] = out.forecastResult]
                /\ pc' = [pc EXCEPT ![r] = "GeneratingRationale"]
                /\ UNCHANGED failedIn
    /\ UNCHANGED <<tz, dailySales, inventory, ack, emitted, inserts, attempts,
                   reported, store, storeErrors, minted, engineOut,
                   salesQuery>>

\* the generate handler from the generator's answer to its emit
GenerateRationale(r) ==
    /\ pc[r] = "GeneratingRationale"
    /\ \E apiKey \in ApiKeys :
         \E outcome \in OutcomesFor(apiKey) :
          LET input == Last(emitted[r]).data
              request == ExplanationRequest(input.historicalData.dailySales,
                                            forecastResult[r])
              out == RationaleStep(request, outcome)
              fr == [forecastResult[r] EXCEPT !.forecastRationale = out.rationale]
          IN  IF out.threw
              THEN Fail(r, "GeneratingRationale")
                      /\ UNCHANGED <<forecastResult, emitted>>
              ELSE /\ forecastResult' = [forecastResult EXCEPT ![r] = fr]
                   /\ emitted' = [emitted EXCEPT
                                     ![r] = Append(@, PersistEvent(input.requestId, fr))]
                   /\ pc' = [pc EXCEPT ![r] = "Persisting"]
                   /\ UNCHANGED failedIn
    /\ UNCHANGED <<tz, dailySales, inventory, ack, inserts, attempts, reported,
                   store, storeErrors, minted, engineOut, salesQuery>>

\* the persist handler up to Promise.all: every period's insert is issued
PersistStart(r) ==
    /\ pc[r] = "Persisting"
    /\ inserts[r] = <<>>
    /\ LET n == Len(Last(emitted[r]).data.forecastResult.forecastPeriods)
       IN  /\ inserts' = [inserts EXCEPT ![r] = [i \in 1..n |-> "inflight"]]
           /\ attempts' = [attempts EXCEPT ![r] = [i \in 1..n |-> 1]]
           /\ IF n = 0
              THEN /\ reported' = [reported EXCEPT ![r] = "success"]
                   /\ pc' = [pc EXCEPT ![r] = "Completed"]
              ELSE UNCHANGED <<reported, pc>>
    /\ UNCHANGED <<tz, dailySales, inventory, failedIn, ack, emitted,
                   forecastResult, store, storeErrors, minted, engineOut,
                   salesQuery>>

\* the insert of period i returns; the period's function and, if it is due,
\* the handler's Promise.all continue
InsertCompletes(revision, r, i) ==
    /\ i \in DOMAIN inserts[r]
    /\ inserts[r][i] = "inflight"
    /\ \E error \in BOOLEAN :
          LET fr == Last(emitted[r]).data.forecastResult
              insertData == InsertPayload(fr, fr.forecastPeriods[i])
              payload == IF revision = "retry" /\ attempts[r][i] = 2
                         THEN FallbackInsertData(insertData)
                         ELSE insertData
              step == PeriodStep(revision, attempts[r][i], error)
              states == [inserts[r] EXCEPT
                           ![i] = IF step = "done" THEN "ok"
                                  ELSE IF step = "throw" THEN "err" ELSE @]
              report == IF reported[r] # None THEN reported[r]
                        ELSE PersistReport(states)
          IN  /\ error => storeErrors < MaxStoreErrors
              /\ storeErrors' = IF error THEN storeErrors + 1 ELSE storeErrors
              /\ store' = IF error THEN StoreOnError(store, r)
                          ELSE StoreInsert(store, <<r, i, attempts[r][i]>>, payload)
              /\ inserts' = [inserts EXCEPT ![r] = states]
              /\ attempts' = [attempts EXCEPT
                                ![r][i] = IF step = "reissue" THEN @ + 1 ELSE @]
              /\ reported' = [reported EXCEPT ![r] = report]
              /\ IF reported[r] = None /\ report = "failed"
                 THEN Fail(r, "Persisting")
                 ELSE IF reported[r] = None /\ report = "success"
                 THEN pc' = [pc EXCEPT ![r] = "Completed"] /\ UNCHANGED failedIn
                 ELSE UNCHANGED <<pc, failedIn>>
    /\ UNCHANGED <<tz, dailySales, inventory, ack, emitted, forecastResult,
                   minted, engineOut, salesQuery>>

PersistInsert(r) == \E i \in 1..Horizon : InsertCompletes("current", r, i)

PersistInsertRetry(r) == \E i \in 1..Horizon : InsertCompletes("retry", r, i)

Next ==
    \E r \in Runs :
        \/ ForecastAPI(r)
        \/ LoadHistoricalFacts(r)
        \/ ComputeForecast(r)
        \/ GenerateRationale(r)
        \/ PersistStart(r)
        \/ PersistInsert(r)

Spec == Init /\ [][Next]_vars

\* the pipeline with the persist handler of unnamed/part_002
NextRetry ==
    \E r \in Runs :
        \/ ForecastAPI(r)
        \/ LoadHistoricalFacts(r)
        \/ ComputeForecast(r)
        \/ GenerateRationale(r)
        \/ PersistStart(r)
        \/ PersistInsertRetry(r)

SpecRetry == Init /\ [][NextRetry]_vars

(***************************************************************************)
(* One run of the pipeline on a series shorter than the averaging window.  *)
(***************************************************************************)
\* series of 1 to 6 facts
ShortSeriesChoices ==
    {<<4>>, <<2, 7>>, <<5, 3, 4>>, <<8, 6, 7, 3>>, <<1, 2, 3, 4, 6>>,
     <<10, 12, 9, 14, 11, 16>>}

InitShort ==
    /\ tz \in TimeZones
    /\ \E values \in ShortSeriesChoices :
          dailySales =
              [p \in Products |->
                  IF p = "product-123" THEN SalesRows(values, <<2023, 1, 7>>)
                  ELSE <<>>]
    /\ inventory =
          [p \in Products |->
              IF p = "product-123" THEN InventoryRows(<<40, 38>>, <<2023, 1, 7>>)
              ELSE <<>>]
    /\ InitRuns

NextShort ==
    \/ ForecastAPI("runA")
    \/ LoadHistoricalFacts("runA")
    \/ ComputeForecast("runA")
    \/ GenerateRationale("runA")
    \/ PersistStart("runA")
    \/ PersistInsert("runA")

SpecShort == InitShort /\ [][NextShort]_vars

(***************************************************************************)
(* The forecast engine on its own: any time zone, series and last date.    *)
(***************************************************************************)
InitEngine ==
    /\ tz \in TimeZones
    /\ \E values \in SalesValueChoices, lastDate \in LastDates :
          /\ dailySales =
                [p \in Products |->
                    IF p = "product-123" THEN SalesRows(values, lastDate)
                    ELSE <<>>]
          /\ inventory =
                [p \in Products |->
                    IF p = "product-123" THEN InventoryRows(<<40, 38>>, lastDate)
                    ELSE <<>>]
    /\ InitRuns

\* the generate-forecast event the load step emits for the facts of the store
EngineInput ==
    LoadStep([requestId |-> RequestIdName(1),
              productId |-> "product-123",
              timeRange |-> "last-30-days"],
             [error |-> FALSE, data |-> dailySales["product-123"]],
             [error |-> FALSE, data |-> inventory["product-123"]]).event.data

\* steps 1-3 and the summary of the generate handler on the facts of the store
EngineApply ==
    /\ Len(engineOut) < MaxApplications
    /\ engineOut' = Append(engineOut, ComputeStep(tz, EngineInput).forecastResult)
    /\ UNCHANGED <<tz, dailySales, inventory, pc, failedIn, ack, emitted,
                   forecastResult, inserts, attempts, reported, store,
                   storeErrors, minted, salesQuery>>

NextEngine == EngineApply

SpecEngine == InitEngine /\ [][NextEngine]_vars

\* the second revision of the generate handler on the same facts
EngineApplyDummy ==
    /\ Len(engineOut) < MaxApplications
    /\ \E draws \in VariationDraws :
          LET input == EngineInput
              historicalData ==
                  [productId |-> input.historicalData.productId,
                   timeRange |-> input.historicalData.timeRange,
                   dataPoints |-> input.historicalData.dailySales]
          IN  engineOut' =
                  Append(engineOut,
                         DummyForecastResult(tz, input.requestId, historicalData,
                                             input.forecastParameters, draws))
    /\ UNCHANGED <<tz, dailySales, inventory, pc, failedIn, ack, emitted,
                   forecastResult, inserts, attempts, reported, store,
                   storeErrors, minted, salesQuery>>

NextEngineDummy == EngineApplyDummy

SpecEngineDummy == InitEngine /\ [][NextEngineDummy]_vars

(***************************************************************************)
(* The generate handler on any event its input schema admits (lines 10-29: *)
(* dailySales is an array of {date, value}, in any order).                 *)
(***************************************************************************)
\* the dailySales of the events: ascending dates, two facts out of order, and
\* a date that occurs twice
EventSeriesChoices ==
    {[i \in 1..7 |-> [date |-> <<2023, 1, i>>,
                      value |-> <<100, 110, 105, 120, 115, 108, 112>>[i]]],
     [i \in 1..7 |-> [date |-> <<2023, 1, <<1, 2, 3, 4, 5, 7, 6>>[i]>>,
                      value |-> <<100, 110, 105, 120, 115, 112, 108>>[i]]],
     [i \in 1..7 |-> [date |-> <<2023, 1, <<1, 2, 3, 3, 5, 6, 7>>[i]>>,
                      value |-> <<100, 110, 105, 120, 115, 108, 112>>[i]]]}

\* the handler's steps 1-3 on a generate-forecast event
GenerateOnEvent ==
    /\ Len(engineOut) < MaxApplications
    /\ \E series \in EventSeriesChoices :
          LET input == [EngineInput EXCEPT !.historicalData.dailySales = series]
          IN  engineOut' = Append(engineOut,
                                  [input |-> input, out |-> ComputeStep(tz, input)])
    /\ UNCHANGED <<tz, dailySales, inventory, pc, failedIn, ack, emitted,
                   forecastResult, inserts, attempts, reported, store,
                   storeErrors, minted, salesQuery>>

NextHandler == GenerateOnEvent

SpecHandler == InitEngine /\ [][NextHandler]_vars

(***************************************************************************)
(* The generate handler on events that differ in their forecastParameters. *)
(***************************************************************************)
\* lines 25-28: method is any string; the one the load step sends, the name
\* of the method the handler applies, and another
MethodChoices ==
    {"exponential-smoothing", "deterministic-moving-average-with-trend", "arima"}

\* lines 25-28: confidenceLevel is any number; in hundredths
ConfidenceLevelChoices == {80, 95, 99}

\* steps 1-3 and the summary on a generate-forecast event with the method
\* and the confidence level chosen
GenerateWithParameters ==
    /\ Len(engineOut) < MaxApplications
    /\ \E method \in MethodChoices, level \in ConfidenceLevelChoices :
         \E input \in {[EngineInput EXCEPT !.forecastParameters.method = method,
                                           !.forecastParameters.confidenceLevel = level]} :
            engineOut' =
                Append(engineOut,
                       [input |-> input,
                        forecastResult |-> ComputeStep(tz, input).forecastResult])
    /\ UNCHANGED <<tz, dailySales, inventory, pc, failedIn, ack, emitted,
                   forecastResult, inserts, attempts, reported, store,
                   storeErrors, minted, salesQuery>>

NextParameters == GenerateWithParameters

SpecParameters == InitEngine /\ [][NextParameters]_vars

(***************************************************************************)
(* The generate handler on events that differ in their inventory series.   *)
(***************************************************************************)
\* the inventorySnapshots of the events: none, those of the store, others
InventoryChoices ==
    {<<>>,
     EngineInput.historicalData.inventorySnapshots,
     <<[date |-> <<2023, 1, 1>>, value |-> 0]>>,
     <<[date |-> <<2023, 1, 1>>, value |-> 3], [date |-> <<2023, 1, 2>>, value |-> 1]>>}

\* the handler up to its call of the generator: what it logs of the input,
\* the forecastResult and the explanation request
GenerateWithInventory ==
    /\ Len(engineOut) < MaxApplications
    /\ \E snapshots \in InventoryChoices :
          LET input == [EngineInput EXCEPT
                           !.historicalData.inventorySnapshots = snapshots]
              out == ComputeStep(tz, input)
          IN  engineOut' =
                  Append(engineOut,
                         [input |-> input,
                          logged |-> InputSummary(input.historicalData),
                          out |-> out,
                          request |->
                              ExplanationRequest(input.historicalData.dailySales,
                                                 out.forecastResult)])
    /\ UNCHANGED <<tz, dailySales, inventory, pc, failedIn, ack, emitted,
                   forecastResult, inserts, attempts, reported, store,
                   storeErrors, minted, salesQuery>>

NextInventory == GenerateWithInventory

SpecInventory == InitEngine /\ [][NextInventory]_vars

(***************************************************************************)
(* The generate handler from its event to its emit, for each outcome of    *)
(* its call of the text generator.                                         *)
(***************************************************************************)
GenerateOnOutcome ==
    /\ Len(engineOut) < MaxApplications
    /\ \E input \in {EngineInput} :
        \E computed \in {ComputeStep(tz, input).forecastResult} :
         \E request \in {ExplanationRequest(input.historicalData.dailySales,
                                            computed)} :
          \E apiKey \in ApiKeys :
           \E outcome \in (IF apiKey = "" THEN {"apiError"} ELSE AnswerOutcomes) :
             LET step == RationaleStep(request, outcome)
                 fr == [computed EXCEPT !.forecastRationale = step.rationale]
             IN  engineOut' =
                     Append(engineOut,
                            [input |-> input,
                             answered |->
                                 outcome \in {"text", "blankText", "emptyText"},
                             text |-> ResponseText(outcome),
                             request |-> request,
                             threw |-> step.threw,
                             event |-> PersistEvent(input.requestId, fr)])
    /\ UNCHANGED <<tz, dailySales, inventory, pc, failedIn, ack, emitted,
                   forecastResult, inserts, attempts, reported, store,
                   storeErrors, minted, salesQuery>>

NextRationale == GenerateOnOutcome

SpecRationale == InitEngine /\ [][NextRationale]_vars

(***************************************************************************)
(* Step 1 of the generate handler on series shorter and longer than the    *)
(* window.                                                                 *)
(***************************************************************************)
\* series of 1, 6, 7, 8 and 10 facts
WindowSeriesChoices ==
    {<<4>>,
     <<10, 12, 9, 14, 11, 16>>,
     <<100, 110, 105, 120, 115, 108, 112>>,
     <<90, 100, 110, 105, 120, 115, 108, 112>>,
     <<3, 1, 4, 1, 5, 9, 2, 6, 5, 3>>}

InitWindow ==
    /\ tz \in TimeZones
    /\ \E values \in WindowSeriesChoices, lastDate \in LastDates :
          /\ dailySales =
                [p \in Products |->
                    IF p = "product-123" THEN SalesRows(values, lastDate)
                    ELSE <<>>]
          /\ inventory =
                [p \in Products |->
                    IF p = "product-123" THEN InventoryRows(<<40, 38>>, lastDate)
                    ELSE <<>>]
    /\ InitRuns

\* lines 67-74 on the generate-forecast event of the facts of the store
MovingAverageStep ==
    /\ Len(engineOut) < MaxApplications
    /\ \E sales \in {EngineInput.historicalData.dailySales} :
          engineOut' =
              Append(engineOut,
                     [dailySales |-> sales,
                      movingAverages |-> MovingAverages(sales),
                      finalMovingAverage |-> FinalMovingAverage(sales)])
    /\ UNCHANGED <<tz, dailySales, inventory, pc, failedIn, ack, emitted,
                   forecastResult, inserts, attempts, reported, store,
                   storeErrors, minted, salesQuery>>

NextWindow == MovingAverageStep

SpecWindow == InitWindow /\ [][NextWindow]_vars

(***************************************************************************)
(* The persist handler on any event its input schema admits (lines 6-31):  *)
(* forecastRationale, movingAverage and trendSlope are optional.           *)
(***************************************************************************)
InitPersistEvent ==
    /\ tz \in TimeZones
    /\ dailySales =
          [p \in Products |->
              IF p = "product-123"
              THEN SalesRows(<<100, 110, 105, 120, 115, 108, 112>>, <<2023, 1, 7>>)
              ELSE <<>>]
    /\ inventory =
          [p \in Products |->
              IF p = "product-123" THEN InventoryRows(<<40, 38>>, <<2023, 1, 7>>)
              ELSE <<>>]
    /\ InitRuns

\* the record rec without the fields of the set gone
Without(rec, gone) == [f \in DOMAIN rec \ gone |-> rec[f]]

\* the forecastResult of the events: that of the generate step for the facts
\* of the store, with a generated rationale, an empty one and none, and
\* without the optional fields of the summary
PersistEventChoices ==
    LET base == ComputeStep(tz, EngineInput).forecastResult
    IN  {[base EXCEPT !.forecastRationale = GeneratedText],
         [base EXCEPT !.forecastRationale = ""],
         Without(base, {"forecastRationale"}),
         [Without(base, {"forecastRationale"}) EXCEPT
             !.forecastSummary = Without(@, {"movingAverage", "trendSlope"})]}

\* a persist-forecast-result event is delivered to the handler
ReceivePersistEvent(r) ==
    /\ pc[r] = "Idle"
    /\ \E fr \in PersistEventChoices :
          emitted' = [emitted EXCEPT ![r] = <<PersistEvent(fr.requestId, fr)>>]
    /\ pc' = [pc EXCEPT ![r] = "Persisting"]
    /\ UNCHANGED <<tz, dailySales, inventory, failedIn, ack, forecastResult,
                   inserts, attempts, reported, store, storeErrors, minted,
                   salesQuery, engineOut>>

NextPersistEvent ==
    \E r \in Runs :
        \/ ReceivePersistEvent(r)
        \/ PersistStart(r)
        \/ PersistInsert(r)

SpecPersistEvent == InitPersistEvent /\ [][NextPersistEvent]_vars

(***************************************************************************)
(* The pipeline with its scheduling: Motia delivers every emitted event to *)
(* its subscriber and the store calls return; the text generator answers a *)
(* call, or never does (line 415 awaits generateContent with no timeout).  *)
(***************************************************************************)
\* the generator will not answer the call of run r: the await of line 182
\* stays pending
GeneratorSilent(r) ==
    /\ pc[r] = "GeneratingRationale"
    /\ pc' = [pc EXCEPT ![r] = "AwaitingSilentGenerator"]
    /\ UNCHANGED <<tz, dailySales, inventory, failedIn, ack, emitted,
                   forecastResult, inserts, attempts, reported, store,
                   storeErrors, minted, salesQuery, engineOut>>

NextLive ==
    \E r \in Runs :
        \/ ForecastAPI(r)
        \/ LoadHistoricalFacts(r)
        \/ ComputeForecast(r)
        \/ GenerateRationale(r)
        \/ GeneratorSilent(r)
        \/ PersistStart(r)
        \/ PersistInsert(r)

\* Every handler whose event is pending runs, an answer of the generator is
\* processed, and every insert in flight returns.  Steps 1-3 of the generate
\* handler are synchronous: a run whose generate-forecast event is pending
\* does not stay in Computing (this is WF_vars(ComputeForecast(r)), stated on
\* the stage the step leaves).
FairLive ==
    \A r \in Runs :
        /\ WF_vars(LoadHistoricalFacts(r))
        /\ []<>(pc[r] # "Computing")
        /\ WF_vars(GenerateRationale(r))
        /\ WF_vars(PersistStart(r))
        /\ WF_vars(PersistInsert(r))

SpecLive == Init /\ [][NextLive]_vars /\ FairLive

(***************************************************************************)
(* Properties.                                                             *)
(***************************************************************************)
\* the rows of the result store written by the insert of period i of run r
RowsOf(r, i) == {row \in store : row.id[1] = r /\ row.id[2] = i}

\* the rows of the result store written by run r
RowsOfRun(r) == {row \in store : row.id[1] = r}

\* the persist-forecast-result event of run r has been emitted
PersistEmitted(r) == Len(emitted[r]) = 3

\* the forecastResult handed to the persist step of run r
Handed(r) == emitted[r][3].data.forecastResult

\* C1: whatever the text generator does (text, empty text, failure, thrown
\* exception, no API key), the generate step does not fail in the rationale
\* step and the ForecastResult it emits has a non-empty forecastRationale.
C1_RationaleTotal ==
    \A r \in Runs :
        /\ failedIn[r] # "GeneratingRationale"
        /\ PersistEmitted(r) => Handed(r).forecastRationale # ""

\* one run got the generator's text, another one the fallback
C1_Witness ==
    \E r1, r2 \in Runs :
        /\ PersistEmitted(r1) /\ Handed(r1).forecastRationale = GeneratedText
        /\ PersistEmitted(r2) /\ Handed(r2).forecastRationale # GeneratedText
        /\ Handed(r2).forecastRationale
              = GenerateFallbackExplanation(
                    ExplanationRequest(emitted[r2][2].data.historicalData.dailySales,
                                       Handed(r2)))

\* C2: a run fails only in LoadingFacts or in Persisting; once
\* generate-forecast has been emitted the generate step is either still at
\* work or has emitted persist-forecast-result.
C2_FailedOnlyFromLoadOrPersist ==
    \A r \in Runs :
        /\ pc[r] = "Failed" <=> failedIn[r] \in {"LoadingFacts", "Persisting"}
        /\ failedIn[r] \in {None, "LoadingFacts", "Persisting"}
        /\ Len(emitted[r]) >= 2 =>
              \/ pc[r] \in {"Computing", "GeneratingRationale"}
              \/ /\ PersistEmitted(r)
                 /\ emitted[r][3].topic = "persist-forecast-result"

\* one run failed while loading and one while persisting
C2_Witness ==
    \E r1, r2 \in Runs :
        /\ failedIn[r1] = "LoadingFacts"
        /\ failedIn[r2] = "Persisting" /\ PersistEmitted(r2)

\* C3: the persist step reports success only with every period of the run
\* in the result store, and once a period's write has failed the run is
\* reported failed.
C3_SuccessIffAllPersisted ==
    \A r \in Runs :
        /\ reported[r] = "success" =>
              \A i \in 1..Horizon :
                  \E row \in RowsOf(r, i) :
                      row = [id |-> row.id]
                              @@ InsertPayload(Handed(r), Handed(r).forecastPeriods[i])
        /\ (\E i \in DOMAIN inserts[r] : inserts[r][i] = "err") =>
              reported[r] = "failed"
        /\ reported[r] = "failed" =>
              \E i \in DOMAIN inserts[r] : inserts[r][i] = "err"

\* one run reported success and the other failure
C3_Witness ==
    \E r1, r2 \in Runs :
        /\ reported[r1] = "success" /\ pc[r1] = "Completed"
        /\ reported[r2] = "failed" /\ pc[r2] = "Failed"

\* C4: when writes of a run have failed, the run is reported failed and the
\* rows of the run in the result store are exactly those of the periods
\* whose write succeeded: nothing is rolled back.
C4_PartialPersistenceKept ==
    \A r \in Runs :
        (\E i \in DOMAIN inserts[r] : inserts[r][i] = "err") =>
            /\ reported[r] = "failed"
            /\ \A i \in DOMAIN inserts[r] :
                  /\ inserts[r][i] = "ok" =>
                        RowsOf(r, i) =
                            {[id |-> <<r, i, attempts[r][i]>>]
                               @@ InsertPayload(Handed(r), Handed(r).forecastPeriods[i])}
                  /\ inserts[r][i] # "ok" => RowsOf(r, i) = {}

\* of 5 periods the write of period 3 failed: 1, 2, 4 and 5 are in the store
C4_Witness ==
    \E r \in Runs :
        /\ inserts[r] = <<"ok", "ok", "err", "ok", "ok">>
        /\ reported[r] = "failed"
        /\ {row.id[2] : row \in RowsOfRun(r)} = {1, 2, 4, 5}

\* C5: no step removes or changes a row of the result store: every row
\* present before a step is present, unchanged, after it.
C5_AppendOnly == [][store \subseteq store']_vars

\* two runs have each written a row for the same product and forecast date
C5_Witness ==
    \E row1, row2 \in store :
        /\ row1.id[1] # row2.id[1]
        /\ row1.product_id = row2.product_id
        /\ row1.forecast_date = row2.forecast_date

\* C6: a run that is Completed has written exactly one row for each of its
\* 5 forecast periods: none is missing, none is written twice.
C6_ExactlyOnce ==
    \A r \in Runs :
        pc[r] = "Completed" =>
            /\ Len(Handed(r).forecastPeriods) = Horizon
            /\ \A i \in 1..Horizon : Cardinality(RowsOf(r, i)) = 1
            /\ Cardinality(RowsOfRun(r)) = Horizon

\* both runs are Completed
C6_Witness ==
    \A r \in Runs : pc[r] = "Completed" /\ Cardinality(RowsOfRun(r)) = Horizon

\* C7: the insert of a forecast period is issued at most once in a run.
C7_NoReissue ==
    \A r \in Runs : \A i \in DOMAIN attempts[r] : attempts[r][i] <= 1

\* C8: the requestId the trigger minted is the requestId of every event of
\* the run and of the ForecastResult in the persist-forecast-result event.
C8_RequestIdCarried ==
    \A r \in Runs :
        \A k \in 1..Len(emitted[r]) :
            /\ emitted[r][k].data.requestId = ack[r][1].body.requestId
            /\ k = 3 =>
                  emitted[r][k].data.forecastResult.requestId
                      = ack[r][1].body.requestId

\* both runs have emitted their three events, under different request ids
C8_Witness ==
    \E r1, r2 \in Runs :
        /\ PersistEmitted(r1) /\ PersistEmitted(r2)
        /\ ack[r1][1].body.requestId # ack[r2][1].body.requestId
        /\ <<emitted[r1][1].topic, emitted[r1][2].topic, emitted[r1][3].topic>>
              = <<"load-historical-facts", "generate-forecast",
                  "persist-forecast-result">>

\* C9: every row of the result store carries the requestId of the run that
\* wrote it.
C9_RowsCarryRequestId ==
    \A row \in store :
        /\ "requestId" \in DOMAIN row
        /\ row.requestId = ack[row.id[1]][1].body.requestId

\* C10: for a series of at least 7 facts the engine gives 5 periods, the
\* d-th dated d calendar days after the last fact.
C10_PeriodDates ==
    \A k \in 1..Len(engineOut) :
        LET sales == dailySales["product-123"]
            periods == engineOut[k].forecastPeriods
        IN  Len(sales) >= WindowSize =>
                /\ Len(periods) = 5
                /\ \A d \in 1..5 :
                      periods[d].date = AddDays(sales[Len(sales)].sales_date, d)

\* C11: for every fact series and every forecast period,
\* confidenceInterval.lower <= forecastValue <= confidenceInterval.upper.
C11_IntervalContainsValue ==
    \A k \in 1..Len(engineOut) :
        \A d \in 1..Len(engineOut[k].forecastPeriods) :
            LET period == engineOut[k].forecastPeriods[d]
            IN  /\ period.confidenceInterval.lower <= period.forecastValue
                /\ period.forecastValue <= period.confidenceInterval.upper

\* a series with a positive deviation has the value strictly inside
C11_Witness ==
    \E k \in 1..Len(engineOut) :
        \E d \in 1..Len(engineOut[k].forecastPeriods) :
            LET period == engineOut[k].forecastPeriods[d]
            IN  /\ period.confidenceInterval.lower < period.forecastValue
                /\ period.forecastValue < period.confidenceInterval.upper
                /\ Variance(EngineInput.historicalData.dailySales)[1] > 0

\* C12: two executions of the generate step on identical facts and
\* parameters give identical forecastPeriods and forecastSummary.
C12_Deterministic ==
    \A j, k \in 1..Len(engineOut) :
        /\ engineOut[j].forecastPeriods = engineOut[k].forecastPeriods
        /\ engineOut[j].forecastSummary = engineOut[k].forecastSummary

\* C13: for a series of n >= 7 facts movingAverage is the mean of the 7 most
\* recent facts, trendSlope is (last value - first value) / n and the forecast
\* value of day offset d is movingAverage + trendSlope * d rounded to 2
\* decimals, a half going away from zero; the facts 100, 110, 105, 120, 115,
\* 108, 112 of 2023-01-01..07 give 110, 12/7 and 111.71 for 2023-01-08.
C13_ForecastFormula ==
    \A k \in 1..Len(engineOut) :
        LET sales == EngineInput.historicalData.dailySales
            n == Len(sales)
            out == engineOut[k]
            sum7 == SumValues(sales, n - 6, n)
            rise == sales[n].value - sales[1].value
            \* (sum7 / 7 + rise / n * d) * 100, as num / den
            scaled(d) == <<100 * (sum7 * n + 7 * rise * d), 7 * n>>
            halfAway(q) ==
                IF q[1] >= 0 THEN (2 * q[1] + q[2]) \div (2 * q[2])
                ELSE 0 - ((2 * (0 - q[1]) + q[2]) \div (2 * q[2]))
        IN  n >= 7 =>
              /\ out.forecastSummary.movingAverage[1] * 7
                    = sum7 * out.forecastSummary.movingAverage[2]
              /\ out.forecastSummary.trendSlope[1] * n
                    = rise * out.forecastSummary.trendSlope[2]
              /\ \A d \in 1..Len(out.forecastPeriods) :
                    out.forecastPeriods[d].forecastValue = halfAway(scaled(d))
              /\ ([i \in 1..n |-> sales[i].value]
                        = <<100, 110, 105, 120, 115, 108, 112>>
                    /\ sales[n].date = <<2023, 1, 7>>) =>
                    /\ out.forecastSummary.movingAverage = <<770, 7>>
                    /\ out.forecastSummary.trendSlope = <<12, 7>>
                    /\ out.forecastPeriods[1].date = <<2023, 1, 8>>
                    /\ out.forecastPeriods[1].forecastValue = 11171

\* the generate handler of run r has computed its forecastResult
Computed(r) ==
    /\ Len(emitted[r]) >= 2
    /\ pc[r] \in {"GeneratingRationale", "Persisting", "Completed", "Failed"}
    /\ failedIn[r] \notin {"LoadingFacts", "Computing"}

\* C14: for a non-empty series of fewer than 7 facts the run is not
\* rejected by the generate step: movingAverage is 0, each forecast value is
\* trendSlope * d rounded to 2 decimals, and the run goes on to persistence.
C14_ShortSeriesFallback ==
    \A r \in Runs :
        Len(emitted[r]) >= 2 =>
            LET sales == emitted[r][2].data.historicalData.dailySales
                n == Len(sales)
                rise == sales[n].value - sales[1].value
                halfAway(q) ==
                    IF q[1] >= 0 THEN (2 * q[1] + q[2]) \div (2 * q[2])
                    ELSE 0 - ((2 * (0 - q[1]) + q[2]) \div (2 * q[2]))
            IN  (1 <= n /\ n < 7) =>
                  /\ failedIn[r] \notin {"Computing", "GeneratingRationale"}
                  /\ pc[r] = "Failed" => failedIn[r] = "Persisting"
                  /\ pc[r] \in {"Persisting", "Completed", "Failed"} =>
                        PersistEmitted(r)
                  /\ Computed(r) =>
                        /\ forecastResult[r].forecastSummary.movingAverage[1] = 0
                        /\ Len(forecastResult[r].forecastPeriods) = 5
                        /\ \A d \in 1..5 :
                              forecastResult[r].forecastPeriods[d].forecastValue
                                  = halfAway(<<100 * rise * d, n>>)

\* a run on 3 facts with a falling trend has written its 5 rows
C14_Witness ==
    \E r \in Runs :
        /\ pc[r] = "Completed"
        /\ Len(emitted[r][2].data.historicalData.dailySales) = 3
        /\ Handed(r).forecastPeriods[1].forecastValue = 0 - 33
        /\ Cardinality(RowsOfRun(r)) = 5

\* C15: when the sales query returns an error or no row, the run fails in
\* LoadingFacts: no generate-forecast event is emitted, no forecast is
\* computed and no row is written to the result store.
C15_MissingFactsFatal ==
    \A r \in Runs :
        /\ (Len(salesQuery[r]) = 1
              /\ (salesQuery[r][1].error \/ Len(salesQuery[r][1].data) = 0)) =>
              /\ pc[r] = "Failed" /\ failedIn[r] = "LoadingFacts"
        /\ failedIn[r] = "LoadingFacts" =>
              /\ Len(emitted[r]) = 1
              /\ emitted[r][1].topic = "load-historical-facts"
              /\ DOMAIN forecastResult[r] = {}
              /\ inserts[r] = <<>>
              /\ reported[r] = None
              /\ RowsOfRun(r) = {}

\* one run got an error from the store and the other an empty result
C15_Witness ==
    \E r1, r2 \in Runs :
        /\ Len(salesQuery[r1]) = 1 /\ salesQuery[r1][1].error
        /\ Len(salesQuery[r2]) = 1 /\ ~salesQuery[r2][1].error
        /\ Len(salesQuery[r2][1].data) = 0
        /\ failedIn[r1] = "LoadingFacts" /\ failedIn[r2] = "LoadingFacts"

C17_GeneratorCannotBlock ==
    \A r \in Runs : (Len(emitted[r]) = 2) ~> PersistEmitted(r)

\* C18: every triggered run eventually is Completed or Failed, and stays so.
C18_RunTerminates ==
    \A r \in Runs :
        /\ (pc[r] # "Idle") ~> (pc[r] \in {"Completed", "Failed"})
        /\ [](pc[r] = "Completed" => [](pc[r] = "Completed"))
        /\ [](pc[r] = "Failed" => [](pc[r] = "Failed"))

LocalState(r) ==
    <<pc[r], failedIn[r], ack[r], emitted[r], forecastResult[r], inserts[r],
      attempts[r], reported[r], salesQuery[r], RowsOfRun(r)>>

\* the events a run gives on its own: from its trigger event, the facts and
\* the outcome of its own call of the generator
EventsAsAlone(events) ==
    LET first == events[1].data
        productId == first.productId
        loaded == LoadStep(first,
                           [error |-> FALSE, data |-> dailySales[productId]],
                           [error |-> FALSE, data |-> inventory[productId]])
        computed == ComputeStep(tz, loaded.event.data).forecastResult
        request == ExplanationRequest(loaded.event.data.historicalData.dailySales,
                                      computed)
    IN  /\ Len(events) >= 2 => events[2] = loaded.event
        /\ Len(events) >= 3 =>
              \E outcome \in GeneratorOutcomes :
                  events[3] =
                      PersistEvent(first.requestId,
                                   [computed EXCEPT !.forecastRationale =
                                       RationaleStep(request, outcome).rationale])
        /\ Len(events) <= 3

\* the rows a run gives on its own: those of its inserts that succeeded
RowsAsAlone(r, handed, done) ==
    {[id |-> <<r, i, 1>>] @@ InsertPayload(handed, handed.forecastPeriods[i]) :
     i \in {j \in DOMAIN done : done[j] = "ok"}}

\* C20: concurrent runs do not interfere: no step changes what belongs to
\* two runs, and in every interleaving the events and rows of each run are
\* those the run gives on its own on the same facts.
C20_NoInterference ==
    [][\A r \in Runs :
          /\ \A r2 \in Runs \ {r} :
                \/ LocalState(r)' = LocalState(r)
                \/ LocalState(r2)' = LocalState(r2)
          /\ emitted'[r] # emitted[r] => EventsAsAlone(emitted'[r])
          /\ (inserts'[r] # inserts[r] \/ RowsOfRun(r)' # RowsOfRun(r)) =>
                RowsOfRun(r)' = RowsAsAlone(r, Handed(r), inserts'[r])]_vars

\* two runs with different request ids are both in the middle of their
\* inserts of the same product and dates
C20_Witness ==
    \E r1, r2 \in Runs :
        /\ r1 # r2
        /\ pc[r1] = "Persisting" /\ pc[r2] = "Persisting"
        /\ ack[r1][1].body.requestId # ack[r2][1].body.requestId
        /\ ack[r1][1].body.productId = ack[r2][1].body.productId
        /\ Cardinality(RowsOfRun(r1)) = 2 /\ Cardinality(RowsOfRun(r2)) = 3

\* C21: every forecast value and confidence bound is its exact value rounded
\* to 2 decimal places with a half going away from zero, for negative values
\* as for positive ones: sign(x) * floor(|x| * 100 + 1/2) / 100.
C21_RoundHalfAway ==
    \A k \in 1..Len(engineOut) :
        LET sales == EngineInput.historicalData.dailySales
            margin == ConfidenceMargin(sales,
                                       EngineInput.forecastParameters.confidenceLevel)
            n == margin[2]
            \* of the rational q
            halfAway(q) ==
                IF q[1] >= 0 THEN (200 * q[1] + q[2]) \div (2 * q[2])
                ELSE 0 - ((200 * (0 - q[1]) + q[2]) \div (2 * q[2]))
            \* of q - confidenceMargin
            halfAwayBelow(q) ==
                IF CeilMulSqrt(q[2], margin[1]) <= 100 * q[1] * n
                THEN RoundBelow(q, margin)
                ELSE LET h == Reduce(<<200 * q[1] - q[2], 2 * q[2]>>)
                     IN  0 - ((FloorMulSqrt(h[2], margin[1]) - h[1] * n)
                                 \div (h[2] * n))
            \* of q + confidenceMargin
            halfAwayAbove(q) ==
                IF 0 - 100 * q[1] * n <= FloorMulSqrt(q[2], margin[1])
                THEN RoundAbove(q, margin)
                ELSE LET g == Reduce(<<q[2] - 200 * q[1], 2 * q[2]>>)
                     IN  0 - ((g[1] * n - CeilMulSqrt(g[2], margin[1]))
                                 \div (g[2] * n))
        IN  \A d \in 1..Len(engineOut[k].forecastPeriods) :
                LET period == engineOut[k].forecastPeriods[d]
                    x == DeterministicValue(sales, d)
                IN  /\ period.forecastValue = halfAway(x)
                    /\ period.confidenceInterval.lower = halfAwayBelow(x)
                    /\ period.confidenceInterval.upper = halfAwayAbove(x)

\* C22: summary.minForecast and summary.maxForecast are the least and the
\* greatest of the unrounded values movingAverage + trendSlope * d, d = 1..5,
\* not of the rounded values of the periods.
C22_ExtremaOfRawValues ==
    \A k \in 1..Len(engineOut) :
        LET sales == EngineInput.historicalData.dailySales
            raw == [d \in 1..Horizon |-> DeterministicValue(sales, d)]
            least == CHOOSE i \in 1..Horizon :
                         \A j \in 1..Horizon : RatLeq(raw[i], raw[j])
            most == CHOOSE i \in 1..Horizon :
                        \A j \in 1..Horizon : RatLeq(raw[j], raw[i])
            summary == engineOut[k].forecastSummary
        IN  /\ summary.minForecast * raw[least][2] = 100 * raw[least][1]
            /\ summary.maxForecast * raw[most][2] = 100 * raw[most][1]

\* C23: every row inserted into forecast_results has a non-empty explanation
\* and a non-empty model_version, also when the forecastResult of the event
\* has no forecastRationale or an empty one.
C23_RowsExplained ==
    \A row \in store :
        /\ row.explanation # ""
        /\ row.model_version # ""

\* rows were written for an event without forecastRationale and for one
\* whose forecastRationale is empty
C23_Witness ==
    \E r1, r2 \in Runs :
        /\ RowsOfRun(r1) # {} /\ RowsOfRun(r2) # {}
        /\ "forecastRationale" \notin DOMAIN emitted[r1][1].data.forecastResult
        /\ "forecastRationale" \in DOMAIN emitted[r2][1].data.forecastResult
        /\ emitted[r2][1].data.forecastResult.forecastRationale = ""

\* C24: the inventory series never influences the forecast: two executions
\* of the generate step with equal sales series and parameters give equal
\* forecastPeriods, forecastSummary and explanation request, whatever their
\* inventory series.
C24_InventoryUnused ==
    \A j, k \in 1..Len(engineOut) :
        (/\ engineOut[j].input.historicalData.dailySales
               = engineOut[k].input.historicalData.dailySales
         /\ engineOut[j].input.forecastParameters
               = engineOut[k].input.forecastParameters) =>
            /\ engineOut[j].out.threw = engineOut[k].out.threw
            /\ engineOut[j].out.forecastResult.forecastPeriods
                  = engineOut[k].out.forecastResult.forecastPeriods
            /\ engineOut[j].out.forecastResult.forecastSummary
                  = engineOut[k].out.forecastResult.forecastSummary
            /\ engineOut[j].request = engineOut[k].request

\* the step ran on the same sales with an empty inventory series and with
\* one of two snapshots, which it logged with different averages
C24_Witness ==
    \E j, k \in 1..Len(engineOut) :
        /\ engineOut[j].input.historicalData.dailySales
              = engineOut[k].input.historicalData.dailySales
        /\ Len(engineOut[j].input.historicalData.inventorySnapshots) = 0
        /\ Len(engineOut[k].input.historicalData.inventorySnapshots) = 2
        /\ engineOut[j].logged.averageInventory
              # engineOut[k].logged.averageInventory
        /\ ~engineOut[j].out.threw /\ ~engineOut[k].out.threw

\* C25: the persist step reports its outcome only after the insert of every
\* period has returned: when it reports no insert of the run is in flight,
\* and no row of the run appears in the result store after a failure was
\* reported.
C25_ReportAfterAllOutcomes ==
    [][\A r \in Runs :
          /\ reported'[r] # None =>
                \A i \in DOMAIN inserts'[r] : inserts'[r][i] # "inflight"
          /\ reported[r] = "failed" => RowsOfRun(r)' = RowsOfRun(r)]_vars

\* C26: the writes of the periods of one run are independent of their order:
\* the return of one insert changes the state of no other insert of the run,
\* the row it adds is the payload of its own period, and whatever the order
\* in which the inserts returned, a run with all inserts successful ends
\* with the same five rows.
C26_OrderIndependent ==
    [][\A r \in Runs :
          /\ \A i, j \in DOMAIN inserts[r] :
                (i # j /\ inserts'[r][i] # inserts[r][i]) =>
                    inserts'[r][j] = inserts[r][j]
          /\ \A i \in DOMAIN inserts[r] :
                (inserts[r][i] = "inflight" /\ inserts'[r][i] = "ok") =>
                    RowsOfRun(r)' =
                        RowsOfRun(r) \cup
                            {[id |-> <<r, i, 1>>]
                                 @@ InsertPayload(Handed(r),
                                                  Handed(r).forecastPeriods[i])}
          /\ (pc[r] # "Completed" /\ pc'[r] = "Completed") =>
                RowsOfRun(r)' =
                    {[id |-> <<r, i, 1>>]
                         @@ InsertPayload(Handed(r), Handed(r).forecastPeriods[i]) :
                     i \in 1..Horizon}]_vars

\* one run is complete with its five rows; of the other the inserts of
\* periods 5 and 3 have succeeded and that of period 2 has failed while
\* those of periods 1 and 4 are in flight
C26_Witness ==
    \E r1, r2 \in Runs :
        /\ pc[r1] = "Completed" /\ Cardinality(RowsOfRun(r1)) = 5
        /\ inserts[r2] = <<"inflight", "err", "ok", "inflight", "ok">>
        /\ Cardinality(RowsOfRun(r2)) = 2

\* C27: the load step requires only the sales series: whenever the sales
\* query returns a non-empty series, the run leaves LoadingFacts for
\* Computing and generate-forecast is emitted, whatever the inventory query
\* returns.
C27_OnlySalesRequired ==
    \A r \in Runs :
        (/\ Len(salesQuery[r]) = 1
         /\ ~salesQuery[r][1].error
         /\ Len(salesQuery[r][1].data) > 0) =>
            /\ failedIn[r] # "LoadingFacts"
            /\ Len(emitted[r]) >= 2
            /\ emitted[r][2].topic = "generate-forecast"

\* C28: the confidence bounds of a period are computed from its rounded
\* forecast value: lower = round2(forecastValue - confidenceMargin) and
\* upper = round2(forecastValue + confidenceMargin), where confidenceMargin
\* is confidenceLevel times the population standard deviation of all the
\* sales values.
C28_BoundsFromRoundedValue ==
    \A k \in 1..Len(engineOut) :
        LET sales == EngineInput.historicalData.dailySales
            level == EngineInput.forecastParameters.confidenceLevel
            n == Len(sales)
            S == SumValues(sales, 1, n)
            \* 100 * confidenceMargin = sqrt(e) / n, level being in hundredths
            e == level * level * (n * SumSquares(sales, 1, n) - S * S)
            \* round2 of q - confidenceMargin, in hundredths
            halfAwayBelow(q) ==
                IF CeilMulSqrt(q[2], e) <= 100 * q[1] * n
                THEN LET h == Reduce(<<200 * q[1] + q[2], 2 * q[2]>>)
                     IN  (h[1] * n - CeilMulSqrt(h[2], e)) \div (h[2] * n)
                ELSE LET h == Reduce(<<200 * q[1] - q[2], 2 * q[2]>>)
                     IN  0 - ((FloorMulSqrt(h[2], e) - h[1] * n) \div (h[2] * n))
            \* round2 of q + confidenceMargin, in hundredths
            halfAwayAbove(q) ==
                IF 0 - 100 * q[1] * n <= FloorMulSqrt(q[2], e)
                THEN LET h == Reduce(<<200 * q[1] + q[2], 2 * q[2]>>)
                     IN  (h[1] * n + FloorMulSqrt(h[2], e)) \div (h[2] * n)
                ELSE LET g == Reduce(<<q[2] - 200 * q[1], 2 * q[2]>>)
                     IN  0 - ((g[1] * n - CeilMulSqrt(g[2], e)) \div (g[2] * n))
        IN  \A d \in 1..Len(engineOut[k].forecastPeriods) :
                LET period == engineOut[k].forecastPeriods[d]
                    forecastValue == <<period.forecastValue, 100>>
                IN  /\ period.confidenceInterval.lower = halfAwayBelow(forecastValue)
                    /\ period.confidenceInterval.upper = halfAwayAbove(forecastValue)

\* C29: the rationale is one of two variants chosen by the outcome of the
\* generator: the generator's text unchanged exactly when the call was
\* answered with a non-empty text, and in every other case the fallback
\* template built from movingAverage, trendSlope, historicalDataPoints and
\* forecastHorizon of the same run.
C29_RationaleVariants ==
    \A k \in 1..Len(engineOut) :
        LET o == engineOut[k]
            fr == o.event.data.forecastResult
            template ==
                GenerateFallbackExplanation(
                    [movingAverage |-> fr.forecastSummary.movingAverage,
                     trendSlope |-> fr.forecastSummary.trendSlope,
                     historicalDataPoints |->
                         Len(o.input.historicalData.dailySales),
                     forecastHorizon |-> Len(fr.forecastPeriods),
                     productId |-> fr.productId])
        IN  /\ ~o.threw
            /\ IF o.answered /\ o.text # ""
               THEN fr.forecastRationale = o.text
               ELSE fr.forecastRationale = template
            /\ fr.forecastRationale = o.text <=> (o.answered /\ o.text # "")

\* the handler ran with an answer of the generator and with a failed call
C29_Witness ==
    \E j, k \in 1..Len(engineOut) :
        /\ engineOut[j].answered /\ engineOut[j].text = GeneratedText
        /\ engineOut[j].event.data.forecastResult.forecastRationale = GeneratedText
        /\ ~engineOut[k].answered
        /\ engineOut[k].event.data.forecastResult.forecastRationale
              = GenerateFallbackExplanation(engineOut[k].request)

\* C30: the fallback explanation is a function of its request alone: equal
\* requests give equal text whatever made the generator fail, and its
\* direction word is 'positive' when trendSlope > 0, 'negative' when
\* trendSlope < 0 and 'stable' when trendSlope = 0.
C30_FallbackPure ==
    \A j, k \in 1..Len(engineOut) :
        LET fellBack(o) == ~(o.answered /\ o.text # "")
            rationale(o) == o.event.data.forecastResult.forecastRationale
            slope == engineOut[k].request.trendSlope
            \* the sign of the quotient slope[1] / slope[2]
            sign == IF slope[1] * slope[2] > 0 THEN 1
                    ELSE IF slope[1] * slope[2] < 0 THEN 0 - 1 ELSE 0
        IN  /\ (fellBack(engineOut[j]) /\ fellBack(engineOut[k])
                   /\ engineOut[j].request = engineOut[k].request) =>
                  rationale(engineOut[j]) = rationale(engineOut[k])
            /\ fellBack(engineOut[k]) =>
                  /\ sign = 1 => rationale(engineOut[k])
                                    = FallbackTemplate(engineOut[k].request, "positive")
                  /\ sign = 0 - 1 => rationale(engineOut[k])
                                    = FallbackTemplate(engineOut[k].request, "negative")
                  /\ sign = 0 => rationale(engineOut[k])
                                    = FallbackTemplate(engineOut[k].request, "stable")

\* on a week of constant sales the fallback was used after an empty answer
\* and after a failed call, with the word 'stable' both times
C30_Witness ==
    \E j, k \in 1..Len(engineOut) :
        /\ engineOut[j].answered /\ engineOut[j].text = ""
        /\ ~engineOut[k].answered
        /\ engineOut[k].request.trendSlope[1] = 0
        /\ engineOut[j].event.data.forecastResult.forecastRationale
              = FallbackTemplate(engineOut[j].request, "stable")
        /\ engineOut[k].event.data.forecastResult.forecastRationale
              = FallbackTemplate(engineOut[k].request, "stable")

\* C31: for a series of n >= 7 facts the sequence of trailing 7-fact
\* averages has n - 7 + 1 entries, in input order, the i-th being the mean of
\* facts i..i+6; for n < 7 it is empty.
C31_WindowedAverages ==
    \A k \in 1..Len(engineOut) :
        LET facts == engineOut[k].dailySales
            averages == engineOut[k].movingAverages
            n == Len(facts)
        IN  /\ n >= 7 =>
                  /\ Len(averages) = n - 7 + 1
                  /\ \A i \in 1..Len(averages) :
                        averages[i][1] * 7 =
                            averages[i][2]
                                * (facts[i].value + facts[i + 1].value
                                     + facts[i + 2].value + facts[i + 3].value
                                     + facts[i + 4].value + facts[i + 5].value
                                     + facts[i + 6].value)
            /\ n < 7 => Len(averages) = 0

\* a series of 10 facts has given 4 averages, the first of facts 1..7 and the
\* last of facts 4..10
C31_Witness ==
    \E k \in 1..Len(engineOut) :
        /\ Len(engineOut[k].dailySales) = 10
        /\ Len(engineOut[k].movingAverages) = 4
        /\ engineOut[k].movingAverages[1] = <<25, 7>>
        /\ engineOut[k].movingAverages[4] = <<31, 7>>
        /\ engineOut[k].finalMovingAverage = <<31, 7>>

\* C32: summary.averageForecast is the mean of the 5 period forecast values
\* rounded to 2 decimal places (a half going away from zero), and
\* summary.trend is the last period's forecastValue less the first period's,
\* rounded the same way.
C32_SummaryOfPeriods ==
    \A k \in 1..Len(engineOut) :
        LET periods == engineOut[k].forecastPeriods
            summary == engineOut[k].forecastSummary
            \* hundredths
            total == periods[1].forecastValue + periods[2].forecastValue
                         + periods[3].forecastValue + periods[4].forecastValue
                         + periods[5].forecastValue
            \* of total / 5
            round2 == IF total >= 0 THEN (2 * total + 5) \div 10
                      ELSE 0 - ((2 * (0 - total) + 5) \div 10)
        IN  /\ Len(periods) = 5
            /\ summary.averageForecast = round2
            /\ summary.trend = periods[5].forecastValue - periods[1].forecastValue

\* a summary whose mean was rounded upwards in its last place, with a trend
C32_Witness ==
    \E k \in 1..Len(engineOut) :
        LET periods == engineOut[k].forecastPeriods
            total == periods[1].forecastValue + periods[2].forecastValue
                         + periods[3].forecastValue + periods[4].forecastValue
                         + periods[5].forecastValue
        IN  /\ total % 5 >= 3
            /\ engineOut[k].forecastSummary.averageForecast = total \div 5 + 1
            /\ engineOut[k].forecastSummary.trend # 0

\* C33: distinct calls of the trigger get distinct requestIds: no two runs
\* that are in progress at the same time have the same requestId.
C33_DistinctRequestIds ==
    \A r1, r2 \in Runs :
        (/\ r1 # r2
         /\ pc[r1] \notin {"Idle", "Completed", "Failed"}
         /\ pc[r2] \notin {"Idle", "Completed", "Failed"})
            => emitted[r1][1].data.requestId # emitted[r2][1].data.requestId

\* the events, facts, forecast and inserts of run r so far are those of the
\* stages in their order
StagesInOrder(r) ==
    LET n == Len(emitted[r])
        order == <<"load-historical-facts", "generate-forecast",
                   "persist-forecast-result">>
    IN  /\ n <= 3
        /\ \A k \in 1..n : emitted[r][k].topic = order[k]
        /\ n >= 2 =>
              /\ Len(salesQuery[r]) = 1
              /\ ~salesQuery[r][1].error
              /\ emitted[r][2].data.historicalData.dailySales # <<>>
              /\ emitted[r][2].data.historicalData.inventorySnapshots # <<>>
        /\ n = 3 =>
              /\ forecastResult[r] # <<>>
              /\ emitted[r][3].data.forecastResult = forecastResult[r]
              /\ forecastResult[r].forecastRationale # ""
        /\ (inserts[r] # <<>> \/ RowsOfRun(r) # {}) => n = 3

\* C34: for each requestId the stages load_historical_facts,
\* generate_forecast and persist_forecast_result happen in this order and
\* each at most once: generate-forecast is emitted only after both queries
\* of facts succeeded, persist-forecast-result only once the forecast and
\* its rationale are complete, and no insert comes before that event.
C34_StagesOncePerRequestId ==
    /\ \A r \in Runs : StagesInOrder(r)
    /\ \A r1, r2 \in Runs :
          \A k1 \in 1..Len(emitted[r1]), k2 \in 1..Len(emitted[r2]) :
              (/\ emitted[r1][k1].data.requestId = emitted[r2][k2].data.requestId
               /\ emitted[r1][k1].topic = emitted[r2][k2].topic)
                  => r1 = r2 /\ k1 = k2

\* C35: all rows written by one run carry the same rationale text: in every
\* row the columns explanation and forecast_rationale are equal, and equal
\* to the forecastRationale of the run's forecastResult when that is not
\* empty.
C35_OneRationalePerRun ==
    \A row \in store :
        LET fr == emitted[row.id[1]][1].data.forecastResult
        IN  /\ row.explanation = row.forecast_rationale
            /\ ("forecastRationale" \in DOMAIN fr /\ fr.forecastRationale # "")
                  => row.explanation = fr.forecastRationale
            /\ \A other \in RowsOfRun(row.id[1]) :
                  /\ other.explanation = row.explanation
                  /\ other.forecast_rationale = row.forecast_rationale

\* one run has written its five rows with the generated text it was handed,
\* another has written rows for a forecastResult with an empty rationale
C35_Witness ==
    \E r1, r2 \in Runs :
        /\ Cardinality(RowsOfRun(r1)) = 5
        /\ "forecastRationale" \in DOMAIN emitted[r1][1].data.forecastResult
        /\ emitted[r1][1].data.forecastResult.forecastRationale = GeneratedText
        /\ \A row \in RowsOfRun(r1) : row.forecast_rationale = GeneratedText
        /\ RowsOfRun(r2) # {}
        /\ "forecastRationale" \in DOMAIN emitted[r2][1].data.forecastResult
        /\ emitted[r2][1].data.forecastResult.forecastRationale = ""

\* C36: the forecastMethod of every forecastResult is the constant
\* 'deterministic-moving-average-with-trend', whatever method the
\* forecastParameters of the event name, and its confidenceLevel is that of
\* the parameters.
C36_MethodConstant ==
    \A k \in 1..Len(engineOut) :
        /\ engineOut[k].forecastResult.forecastMethod
              = "deterministic-moving-average-with-trend"
        /\ engineOut[k].forecastResult.confidenceLevel
              = engineOut[k].input.forecastParameters.confidenceLevel

\* the handler has answered the event of the load step (method
\* 'exponential-smoothing', confidence level 0.95) and an event naming
\* another method and level
C36_Witness ==
    \E j, k \in 1..Len(engineOut) :
        /\ engineOut[j].input = EngineInput
        /\ engineOut[j].input.forecastParameters.method = "exponential-smoothing"
        /\ engineOut[j].forecastResult.confidenceLevel = 95
        /\ engineOut[k].input.forecastParameters.method = "arima"
        /\ engineOut[k].forecastResult.confidenceLevel = 80
        /\ engineOut[j].forecastResult.forecastPeriods
              # engineOut[k].forecastResult.forecastPeriods

\* C37: in the persist revision that re-issues a failed insert, the row of
\* the second attempt has no forecast_rationale column and has every other
\* column of the first attempt, with the same value.
C37_SecondAttemptOmitsRationale ==
    \A row \in store :
        row.id[3] = 2 =>
            LET fr == Handed(row.id[1])
                first == InsertPayload(fr, fr.forecastPeriods[row.id[2]])
            IN  /\ "forecast_rationale" \notin DOMAIN row
                /\ \A col \in DOMAIN first \ {"forecast_rationale"} :
                      col \in DOMAIN row /\ row[col] = first[col]
====
